---- MODULE Spec2Model ----
(***************************************************************************)
(* Session state machine, playback scheduler and transcript aggregator of  *)
(* the voice tutor (src/App.tsx).  The React component's state and refs    *)
(* are the variables; every user control and every Transport callback is   *)
(* one action.  The Transport (the live service connection), the           *)
(* microphone and the output audio clock are the environment: they are     *)
(* modelled by the status of the resources the component opened and by     *)
(* the callbacks they may deliver.                                         *)
(*                                                                         *)
(* JavaScript runs one task at a time and drains the microtask queue       *)
(* before the next task.  A handler is therefore one atomic action up to   *)
(* an await of an external result (getUserMedia, the connect promise).     *)
(* The await of decodeAudioData inside onmessage waits for a promise that  *)
(* is already resolved (decodeAudioData has no await of its own), so the   *)
(* rest of that handler runs as a microtask: it is a step of its own       *)
(* here, and no other task may run before it.                              *)
(***************************************************************************)
EXTENDS Integers, Sequences, FiniteSets, TLC

\* ----- bounds of the model
MaxStarts        == 2   \* startConversation invocations (Spec)
MaxSessionStarts == 1   \* startConversation invocations (SpecSession)
MaxSessionMsgs   == 1   \* server messages delivered (Spec, SpecSession)
MaxSessionTime   == 1   \* ticks of the output audio clock (Spec, SpecSession)
MaxTexts         == 1   \* text messages sent
MaxDialogueMsgs  == 2   \* server messages delivered (SpecDialogue)
MaxMsgs          == 3   \* server messages delivered (SpecPlayback)
MaxTime          == 3   \* ticks of the output audio clock (SpecPlayback)
MaxDur           == 2   \* longest audio chunk, in clock ticks

\* null of the refs (sessionRef, micStreamRef); resources are numbered from 1
Null == 0

\* text is a sequence of characters; "_" stands for a white-space character
Fragments == {<<"a">>, <<"_">>}
Texts     == {<<"q">>}
Durations == 1..MaxDur

\* LiveServerMessage: audio is the duration of the decoded inlineData (0: no
\* data, or an empty string); a transcription is absent (<<>>) or holds one text
Messages ==
  [audio : {0} \cup Durations,
   outputTranscription : {<<>>} \cup {<<f>> : f \in Fragments},
   inputTranscription  : {<<>>} \cup {<<f>> : f \in Fragments},
   turnComplete : BOOLEAN,
   interrupted  : BOOLEAN]

NoMsg == [audio |-> 0, outputTranscription |-> <<>>, inputTranscription |-> <<>>,
          turnComplete |-> FALSE, interrupted |-> FALSE]

\* the messages of the session specifications: one audio chunk of one tick
SessionMessages == {[NoMsg EXCEPT !.audio = 1]}

\* the messages of the playback specification: audio and interruption only
PlaybackMessages ==
  {m \in Messages : /\ m.outputTranscription = <<>>
                    /\ m.inputTranscription = <<>>
                    /\ ~m.turnComplete}

\* the messages of the dialogue specification: transcription fragments and
\* turn boundaries
DialogueMessages == {m \in Messages : m.audio = 0 /\ ~m.interrupted}

\* the messages of the transcript specification: the user's words, then the
\* model's words with the end of the turn
TurnMessages ==
  {[NoMsg EXCEPT !.inputTranscription = <<<<"a">>>>],
   [NoMsg EXCEPT !.outputTranscription = <<<<"a">>>>, !.turnComplete = TRUE]}

VARIABLES
  connectionState,                 \* useState, line 67
  transcriptions,                  \* useState, line 68
  isListening,                     \* useState, line 69
  nextStartTime,                   \* nextStartTimeRef, line 74
  activeSources,                   \* activeSourcesRef, line 75
  sessionRef,                      \* line 76: Null or the invocation whose Session it is
  micStreamRef,                    \* line 77: Null or the invocation whose stream it is
  currentOutputTranscription,      \* line 78
  currentInputTranscription,       \* line 79
  starts,      \* one record per startConversation invocation: where it is
               \* suspended, and the stream and connection it opened
  sources,     \* every AudioBufferSourceNode created, in creation order
  now,         \* audioContextOut.currentTime
  decoding,    \* <<m>>: the onmessage handler of m is suspended at line 159
  textsSent,   \* number of session.send calls (text messages on the Transport)
  epoch,       \* number of Interrupted signals processed
  msgCount,    \* number of server messages delivered
  lastOp,      \* the handler that ran last, and its message
  heardInput,  \* the input fragments delivered since the last turnComplete
  heardOutput, \* the output fragments delivered since the last turnComplete
  audioSentOn  \* the invocation whose session the last captured chunk went to

vars == <<connectionState, transcriptions, isListening, nextStartTime,
          activeSources, sessionRef, micStreamRef, currentOutputTranscription,
          currentInputTranscription, starts, sources, now, decoding,
          textsSent, epoch, msgCount, lastOp, heardInput, heardOutput,
          audioSentOn>>

\* what the server has said since the last turn boundary
heard == <<heardInput, heardOutput>>

Max(a, b) == IF a >= b THEN a ELSE b

Op(name) == [op |-> name, msg |-> NoMsg]

\* the component's state and the resources it opened, as one value
Cur ==
  [connectionState |-> connectionState, transcriptions |-> transcriptions,
   isListening |-> isListening, nextStartTime |-> nextStartTime,
   activeSources |-> activeSources, sessionRef |-> sessionRef,
   micStreamRef |-> micStreamRef,
   currentOutputTranscription |-> currentOutputTranscription,
   currentInputTranscription |-> currentInputTranscription,
   starts |-> starts, sources |-> sources]

Install(s) ==
  /\ connectionState' = s.connectionState
  /\ transcriptions' = s.transcriptions
  /\ isListening' = s.isListening
  /\ nextStartTime' = s.nextStartTime
  /\ activeSources' = s.activeSources
  /\ sessionRef' = s.sessionRef
  /\ micStreamRef' = s.micStreamRef
  /\ currentOutputTranscription' = s.currentOutputTranscription
  /\ currentInputTranscription' = s.currentInputTranscription
  /\ starts' = s.starts
  /\ sources' = s.sources

\* ----- resources
\* Session.close(): the connection starts closing; onclose is delivered later
closeConn(st, c) ==
  [st EXCEPT ![c].conn = IF @ \in {"opening", "open"} THEN "closing" ELSE @]

\* MediaStreamTrack.stop() on every track of the stream
stopTracks(st, m) == [st EXCEPT ![m].mic = "stopped"]

\* AudioBufferSourceNode.stop() on every source of the set
stopSources(src, set) ==
  [i \in DOMAIN src |->
     IF i \in set /\ src[i].state = "scheduled"
     THEN [src[i] EXCEPT !.state = "stopped"] ELSE src[i]]

\* ----- stopConversation, lines 81-94
stopConversation_keepsSession(s) ==
  LET s1 == IF s.sessionRef # Null
            THEN [s EXCEPT !.starts = closeConn(s.starts, s.sessionRef)]
            ELSE s
      s2 == IF s1.micStreamRef # Null
            THEN [s1 EXCEPT !.starts = stopTracks(s1.starts, s1.micStreamRef),
                            !.micStreamRef = Null]
            ELSE s1
  IN [s2 EXCEPT !.sources = stopSources(s2.sources, s2.activeSources),
                !.activeSources = {},
                !.connectionState = "DISCONNECTED",
                !.isListening = FALSE]

stopConversation(s) ==
  LET s1 == IF s.sessionRef # Null
            THEN [s EXCEPT !.starts = closeConn(s.starts, s.sessionRef),
                           !.sessionRef = Null]
            ELSE s
      s2 == IF s1.micStreamRef # Null
            THEN [s1 EXCEPT !.starts = stopTracks(s1.starts, s1.micStreamRef),
                            !.micStreamRef = Null]
            ELSE s1
  IN [s2 EXCEPT !.sources = stopSources(s2.sources, s2.activeSources),
                !.activeSources = {},
                !.connectionState = "DISCONNECTED",
                !.isListening = FALSE]

\* the close/stop calls stopConversation makes on resources in state s
StopCalls(s) ==
  (IF s.sessionRef # Null THEN {<<"close", s.sessionRef>>} ELSE {})
  \cup (IF s.micStreamRef # Null THEN {<<"trackStop", s.micStreamRef>>} ELSE {})
  \cup {<<"sourceStop", x>> : x \in s.activeSources}

\* no handler is suspended at the decode await: the next task may run
Idle_never == TRUE

Idle == decoding = <<>>

Init ==
  /\ connectionState = "DISCONNECTED"
  /\ transcriptions = <<>>
  /\ isListening = FALSE
  /\ nextStartTime = 0
  /\ activeSources = {}
  /\ sessionRef = Null
  /\ micStreamRef = Null
  /\ currentOutputTranscription = <<>>
  /\ currentInputTranscription = <<>>
  /\ starts = <<>>
  /\ sources = <<>>
  /\ now = 0
  /\ decoding = <<>>
  /\ textsSent = 0
  /\ epoch = 0
  /\ msgCount = 0
  /\ lastOp = Op("init")
  /\ heardInput = <<>>
  /\ heardOutput = <<>>
  /\ audioSentOn = Null

\* ----- user controls
\* the Stop button, onClick = stopConversation
Stop ==
  /\ Idle
  /\ Install(stopConversation(Cur))
  /\ lastOp' = Op("stop")
  /\ UNCHANGED <<heard, audioSentOn>>
  /\ UNCHANGED <<now, decoding, textsSent, epoch, msgCount>>

\* the quick-question buttons, onClick = sendTextMessage(text), lines 96-107
sendTextGuard_refOnly(s) == s.sessionRef # Null

sendTextGuard(s) == s.sessionRef # Null /\ s.connectionState = "CONNECTED"

SendText(text) ==
  /\ Idle
  /\ textsSent < MaxTexts
  /\ IF sendTextGuard(Cur)
     THEN /\ textsSent' = textsSent + 1
          /\ transcriptions' = Append(transcriptions, [role |-> "user", text |-> text])
     ELSE UNCHANGED <<textsSent, transcriptions>>
  /\ lastOp' = Op("sendText")
  /\ UNCHANGED <<heard, audioSentOn>>
  /\ UNCHANGED <<connectionState, isListening, nextStartTime, activeSources,
                 sessionRef, micStreamRef, currentOutputTranscription,
                 currentInputTranscription, starts, sources, now, decoding,
                 epoch, msgCount>>

\* the Clear button, lines 221-223
ClearHistory ==
  /\ Idle
  /\ transcriptions' = <<>>
  /\ lastOp' = Op("clearHistory")
  /\ UNCHANGED <<heard, audioSentOn>>
  /\ UNCHANGED <<connectionState, isListening, nextStartTime, activeSources,
                 sessionRef, micStreamRef, currentOutputTranscription,
                 currentInputTranscription, starts, sources, now, decoding,
                 textsSent, epoch, msgCount>>

\* ----- startConversation, lines 109-219
\* the Start button is rendered only while DISCONNECTED or ERROR (line 347);
\* the handler runs to the await of getUserMedia (lines 110-118)
Start(limit) ==
  /\ Idle
  /\ connectionState \in {"DISCONNECTED", "ERROR"}
  /\ Len(starts) < limit
  /\ connectionState' = "CONNECTING"
  /\ starts' = Append(starts, [pc |-> "awaitMic", mic |-> "none", conn |-> "none",
                               armed |-> FALSE])
  /\ lastOp' = Op("start")
  /\ UNCHANGED <<heard, audioSentOn>>
  /\ UNCHANGED <<transcriptions, isListening, nextStartTime, activeSources,
                 sessionRef, micStreamRef, currentOutputTranscription,
                 currentInputTranscription, sources, now, decoding, textsSent,
                 epoch, msgCount>>

\* getUserMedia resolves: lines 118-214, to the await of sessionPromise
MicGranted(p) ==
  /\ Idle
  /\ starts[p].pc = "awaitMic"
  /\ micStreamRef' = p
  /\ starts' = [starts EXCEPT ![p].pc = "awaitConn", ![p].mic = "live",
                              ![p].conn = "opening"]
  /\ lastOp' = Op("micGranted")
  /\ UNCHANGED <<heard, audioSentOn>>
  /\ UNCHANGED <<connectionState, transcriptions, isListening, nextStartTime,
                 activeSources, sessionRef, currentOutputTranscription,
                 currentInputTranscription, sources, now, decoding, textsSent,
                 epoch, msgCount>>

\* getUserMedia rejects: the catch block, lines 215-218
MicDenied(p) ==
  /\ Idle
  /\ starts[p].pc = "awaitMic"
  /\ connectionState' = "ERROR"
  /\ starts' = [starts EXCEPT ![p].pc = "failed"]
  /\ lastOp' = Op("micDenied")
  /\ UNCHANGED <<heard, audioSentOn>>
  /\ UNCHANGED <<transcriptions, isListening, nextStartTime, activeSources,
                 sessionRef, micStreamRef, currentOutputTranscription,
                 currentInputTranscription, sources, now, decoding, textsSent,
                 epoch, msgCount>>

\* sessionPromise rejects (the connection could not be opened): lines 214-218
ConnectReject(p) ==
  /\ Idle
  /\ starts[p].pc = "awaitConn"
  /\ starts[p].conn = "opening"
  /\ connectionState' = "ERROR"
  /\ starts' = [starts EXCEPT ![p].pc = "failed", ![p].conn = "closed"]
  /\ lastOp' = Op("connectReject")
  /\ UNCHANGED <<heard, audioSentOn>>
  /\ UNCHANGED <<transcriptions, isListening, nextStartTime, activeSources,
                 sessionRef, micStreamRef, currentOutputTranscription,
                 currentInputTranscription, sources, now, decoding, textsSent,
                 epoch, msgCount>>

\* callbacks.onopen, lines 133-151: the connection is open, the capture
\* pipeline of this invocation's stream is armed; sessionPromise resolves
OnOpen(p) ==
  /\ Idle
  /\ starts[p].pc = "awaitConn"
  /\ starts[p].conn = "opening"
  /\ connectionState' = "CONNECTED"
  /\ isListening' = TRUE
  /\ starts' = [starts EXCEPT ![p].pc = "resolved", ![p].conn = "open",
                              ![p].armed = TRUE]
  /\ lastOp' = Op("onopen")
  /\ UNCHANGED <<heard, audioSentOn>>
  /\ UNCHANGED <<transcriptions, nextStartTime, activeSources, sessionRef,
                 micStreamRef, currentOutputTranscription,
                 currentInputTranscription, sources, now, decoding, textsSent,
                 epoch, msgCount>>

\* scriptProcessor.onaudioprocess, lines 141-147: the processor created by
\* onopen is never disconnected, and it fires for every block of 4096
\* samples; the chunk goes to the session of this invocation's sessionPromise
AudioProcess(p) ==
  /\ Idle
  /\ starts[p].armed
  /\ audioSentOn' = p
  /\ lastOp' = Op("audioprocess")
  /\ UNCHANGED heard
  /\ UNCHANGED <<connectionState, transcriptions, isListening, nextStartTime,
                 activeSources, sessionRef, micStreamRef,
                 currentOutputTranscription, currentInputTranscription,
                 starts, sources, now, decoding, textsSent, epoch, msgCount>>

\* line 214: startConversation resumes with the Session
StartResume(p) ==
  /\ Idle
  /\ starts[p].pc = "resolved"
  /\ sessionRef' = p
  /\ starts' = [starts EXCEPT ![p].pc = "done"]
  /\ lastOp' = Op("startResume")
  /\ UNCHANGED <<heard, audioSentOn>>
  /\ UNCHANGED <<connectionState, transcriptions, isListening, nextStartTime,
                 activeSources, micStreamRef, currentOutputTranscription,
                 currentInputTranscription, sources, now, decoding, textsSent,
                 epoch, msgCount>>

\* callbacks.onerror, lines 203-207; the failed connection then closes
OnError(p) ==
  /\ Idle
  /\ starts[p].conn \in {"opening", "open"}
  /\ LET s0 == [Cur EXCEPT !.starts = closeConn(starts, p),
                           !.connectionState = "ERROR"]
     IN Install(stopConversation(s0))
  /\ lastOp' = Op("onerror")
  /\ UNCHANGED <<heard, audioSentOn>>
  /\ UNCHANGED <<now, decoding, textsSent, epoch, msgCount>>

\* callbacks.onclose, lines 208-210: after close(), after an error, or when
\* the service closes the connection
OnClose(p) ==
  /\ Idle
  /\ starts[p].conn \in {"open", "closing"}
  /\ connectionState' = "DISCONNECTED"
  /\ starts' = [starts EXCEPT ![p].conn = "closed"]
  /\ lastOp' = Op("onclose")
  /\ UNCHANGED <<heard, audioSentOn>>
  /\ UNCHANGED <<transcriptions, isListening, nextStartTime, activeSources,
                 sessionRef, micStreamRef, currentOutputTranscription,
                 currentInputTranscription, sources, now, decoding, textsSent,
                 epoch, msgCount>>

\* ----- the output clock and the playback units
\* audioContextOut.currentTime advances
Tick(limit) ==
  /\ Idle
  /\ now < limit
  /\ now' = now + 1
  /\ lastOp' = Op("tick")
  /\ UNCHANGED <<heard, audioSentOn>>
  /\ UNCHANGED <<connectionState, transcriptions, isListening, nextStartTime,
                 activeSources, sessionRef, micStreamRef,
                 currentOutputTranscription, currentInputTranscription, starts,
                 sources, decoding, textsSent, epoch, msgCount>>

\* a source has played to its end: its 'ended' listener, lines 165-167
SourceEnded(i) ==
  /\ Idle
  /\ sources[i].state = "scheduled"
  /\ now >= sources[i].start + sources[i].dur
  /\ sources' = [sources EXCEPT ![i].state = "ended"]
  /\ activeSources' = activeSources \ {i}
  /\ lastOp' = Op("ended")
  /\ UNCHANGED <<heard, audioSentOn>>
  /\ UNCHANGED <<connectionState, transcriptions, isListening, nextStartTime,
                 sessionRef, micStreamRef, currentOutputTranscription,
                 currentInputTranscription, starts, now, decoding, textsSent,
                 epoch, msgCount>>

\* ----- callbacks.onmessage, lines 152-202
\* String.prototype.trim
RECURSIVE trimStart(_)
trimStart(t) == IF t # <<>> /\ Head(t) = "_" THEN trimStart(Tail(t)) ELSE t

RECURSIVE trimEnd(_)
trimEnd(t) ==
  IF t # <<>> /\ t[Len(t)] = "_" THEN trimEnd(SubSeq(t, 1, Len(t) - 1)) ELSE t

trim(t) == trimEnd(trimStart(t))

\* line 157
startAt_clockOnly(cursor, t) == t

startAt_cursorOnly(cursor, t) == cursor

startAt(cursor, t) == Max(cursor, t)

\* line 170
advance_none(cursor, d) == cursor

advance(cursor, d) == cursor + d

\* lines 160-171: the decoded buffer of duration d is started at the cursor;
\* t is the output clock and ep the number of interruptions so far
scheduleSource(s, d, t, ep) ==
  LET id == Len(s.sources) + 1
  IN [s EXCEPT !.sources = Append(@, [start |-> s.nextStartTime, dur |-> d,
                                      at |-> t, epoch |-> ep,
                                      state |-> "scheduled"]),
               !.nextStartTime = advance(@, d),
               !.activeSources = @ \cup {id}]

\* lines 175-179
handleTranscriptions(s, m) ==
  IF m.outputTranscription # <<>>
  THEN [s EXCEPT !.currentOutputTranscription = @ \o m.outputTranscription[1]]
  ELSE IF m.inputTranscription # <<>>
  THEN [s EXCEPT !.currentInputTranscription = @ \o m.inputTranscription[1]]
  ELSE s

\* lines 181-194
handleTurnComplete_replace(s, m) ==
  IF m.turnComplete
  THEN LET userText == trim(s.currentInputTranscription)
           modelText == trim(s.currentOutputTranscription)
       IN [s EXCEPT !.transcriptions =
                        (IF userText # <<>>
                         THEN <<[role |-> "user", text |-> userText]>>
                         ELSE <<>>)
                          \o (IF modelText # <<>>
                              THEN <<[role |-> "model", text |-> modelText]>>
                              ELSE <<>>),
                    !.currentInputTranscription = <<>>,
                    !.currentOutputTranscription = <<>>]
  ELSE s

handleTurnComplete(s, m) ==
  IF m.turnComplete
  THEN LET userText == trim(s.currentInputTranscription)
           modelText == trim(s.currentOutputTranscription)
       IN [s EXCEPT !.transcriptions =
                        @ \o (IF userText # <<>>
                              THEN <<[role |-> "user", text |-> userText]>>
                              ELSE <<>>)
                          \o (IF modelText # <<>>
                              THEN <<[role |-> "model", text |-> modelText]>>
                              ELSE <<>>),
                    !.currentInputTranscription = <<>>,
                    !.currentOutputTranscription = <<>>]
  ELSE s

\* line 200
resetCursor_keep(cursor) == cursor

resetCursor(cursor) == 0

\* lines 197-201
handleInterrupted(s, m) ==
  IF m.interrupted
  THEN [s EXCEPT !.sources = stopSources(@, s.activeSources),
                 !.activeSources = {},
                 !.nextStartTime = resetCursor(@)]
  ELSE s

\* lines 174-201, the part of the handler after the audio
onmessageTail(s, m) ==
  handleInterrupted(handleTurnComplete(handleTranscriptions(s, m), m), m)

\* line 155: the message holds audio data (a non-empty string)
hasAudio_always(m) == TRUE

hasAudio(m) == m.audio # 0

\* the fragments of one speaker heard so far, after message m
heardAfter(h, fragment, m) ==
  IF m.turnComplete THEN <<>>
  ELSE IF fragment # <<>> THEN h \o fragment[1] ELSE h

Hear(m) ==
  /\ heardInput' = heardAfter(heardInput, m.inputTranscription, m)
  /\ heardOutput' = heardAfter(heardOutput, m.outputTranscription, m)

Delivering == \E p \in DOMAIN starts : starts[p].conn = "open"

\* a message without audio data: the handler runs to its end
OnMessage(m, limit) ==
  /\ Idle
  /\ Delivering
  /\ msgCount < limit
  /\ ~hasAudio(m)
  /\ Install(onmessageTail(Cur, m))
  /\ epoch' = IF m.interrupted THEN epoch + 1 ELSE epoch
  /\ msgCount' = msgCount + 1
  /\ lastOp' = [op |-> "onmessage", msg |-> m]
  /\ Hear(m)
  /\ UNCHANGED <<now, decoding, textsSent, audioSentOn>>

\* a message with audio data: lines 154-159, to the await of decodeAudioData
OnMessageAudio(m, limit) ==
  /\ Idle
  /\ Delivering
  /\ msgCount < limit
  /\ hasAudio(m)
  /\ nextStartTime' = startAt(nextStartTime, now)
  /\ decoding' = <<m>>
  /\ msgCount' = msgCount + 1
  /\ lastOp' = [op |-> "onmessageAwait", msg |-> m]
  /\ UNCHANGED <<heard, audioSentOn>>
  /\ UNCHANGED <<connectionState, transcriptions, isListening, activeSources,
                 sessionRef, micStreamRef, currentOutputTranscription,
                 currentInputTranscription, starts, sources, now, textsSent,
                 epoch>>

\* the handler resumes with the decoded buffer: lines 159-201
DecodeResume ==
  /\ decoding # <<>>
  /\ LET m == decoding[1]
     IN /\ Install(onmessageTail(scheduleSource(Cur, m.audio, now, epoch), m))
        /\ epoch' = IF m.interrupted THEN epoch + 1 ELSE epoch
        /\ lastOp' = [op |-> "onmessage", msg |-> m]
        /\ Hear(m)
  /\ decoding' = <<>>
  /\ UNCHANGED <<now, textsSent, msgCount, audioSentOn>>

\* the lifecycle: the user controls and the callbacks of every invocation
Lifecycle(limit) ==
  \/ Stop
  \/ \E t \in Texts : SendText(t)
  \/ ClearHistory
  \/ Start(limit)
  \/ \E p \in DOMAIN starts : MicGranted(p)
  \/ \E p \in DOMAIN starts : MicDenied(p)
  \/ \E p \in DOMAIN starts : ConnectReject(p)
  \/ \E p \in DOMAIN starts : OnOpen(p)
  \/ \E p \in DOMAIN starts : StartResume(p)
  \/ \E p \in DOMAIN starts : OnError(p)
  \/ \E p \in DOMAIN starts : OnClose(p)
  \/ \E m \in SessionMessages : OnMessageAudio(m, MaxSessionMsgs)
  \/ DecodeResume
  \/ Tick(MaxSessionTime)
  \/ \E i \in DOMAIN sources : SourceEnded(i)

\* the whole component, with overlapping startConversation invocations
Next == Lifecycle(MaxStarts)

Spec == Init /\ [][Next]_vars

\* the same with fewer invocations
NextSession == Lifecycle(MaxSessionStarts)

SpecSession == Init /\ [][NextSession]_vars

\* a session that is connected (Start, MicGranted, OnOpen, StartResume from Init)
InitConnected ==
  /\ connectionState = "CONNECTED"
  /\ transcriptions = <<>>
  /\ isListening = TRUE
  /\ nextStartTime = 0
  /\ activeSources = {}
  /\ sessionRef = 1
  /\ micStreamRef = 1
  /\ currentOutputTranscription = <<>>
  /\ currentInputTranscription = <<>>
  /\ starts = <<[pc |-> "done", mic |-> "live", conn |-> "open", armed |-> TRUE]>>
  /\ sources = <<>>
  /\ now = 0
  /\ decoding = <<>>
  /\ textsSent = 0
  /\ epoch = 0
  /\ msgCount = 0
  /\ lastOp = Op("startResume")
  /\ heardInput = <<>>
  /\ heardOutput = <<>>
  /\ audioSentOn = Null

\* the playback scheduler of a connected session against the output clock
NextPlayback ==
  \/ Tick(MaxTime)
  \/ \E i \in DOMAIN sources : SourceEnded(i)
  \/ \E m \in PlaybackMessages : OnMessage(m, MaxMsgs)
  \/ \E m \in PlaybackMessages : OnMessageAudio(m, MaxMsgs)
  \/ DecodeResume
  \/ Stop

SpecPlayback == InitConnected /\ [][NextPlayback]_vars

\* the transcript aggregator of a connected session: messages that carry
\* transcription fragments and turn boundaries, typed messages, and the
\* ways the session ends
NextDialogue ==
  \/ \E m \in DialogueMessages : OnMessage(m, MaxDialogueMsgs)
  \/ \E t \in Texts : SendText(t)
  \/ ClearHistory
  \/ Stop
  \/ \E p \in DOMAIN starts : OnError(p)
  \/ \E p \in DOMAIN starts : OnClose(p)

SpecDialogue == InitConnected /\ [][NextDialogue]_vars

\* the transcript across sessions: the lifecycle with the messages of a turn
NextTranscript ==
  \/ Stop
  \/ \E t \in Texts : SendText(t)
  \/ ClearHistory
  \/ Start(MaxSessionStarts)
  \/ \E p \in DOMAIN starts : MicGranted(p)
  \/ \E p \in DOMAIN starts : MicDenied(p)
  \/ \E p \in DOMAIN starts : ConnectReject(p)
  \/ \E p \in DOMAIN starts : OnOpen(p)
  \/ \E p \in DOMAIN starts : StartResume(p)
  \/ \E p \in DOMAIN starts : OnError(p)
  \/ \E p \in DOMAIN starts : OnClose(p)
  \/ \E m \in TurnMessages : OnMessage(m, MaxDialogueMsgs)

SpecTranscript == Init /\ [][NextTranscript]_vars

\* the capture pipeline across sessions: the lifecycle with the audio
\* blocks of the microphone
NextCapture ==
  \/ Stop
  \/ Start(MaxStarts)
  \/ \E p \in DOMAIN starts : MicGranted(p)
  \/ \E p \in DOMAIN starts : MicDenied(p)
  \/ \E p \in DOMAIN starts : ConnectReject(p)
  \/ \E p \in DOMAIN starts : OnOpen(p)
  \/ \E p \in DOMAIN starts : StartResume(p)
  \/ \E p \in DOMAIN starts : OnError(p)
  \/ \E p \in DOMAIN starts : OnClose(p)
  \/ \E p \in DOMAIN starts : AudioProcess(p)

SpecCapture == Init /\ [][NextCapture]_vars

\* ----- the session: sendText, stop, start, the Transport's failures
Live(p) == starts[p].conn \in {"opening", "open"}

\* C1: sendText(text) called while the connection state is not CONNECTED
\* sends no text message on the Transport and leaves the transcript unchanged.
C1_SendTextNoOpUnlessConnected ==
  [][(lastOp'.op = "sendText" /\ connectionState # "CONNECTED")
       => UNCHANGED <<textsSent, transcriptions>>]_vars

\* sendText was called while the session handle was still held but the
\* state was no longer CONNECTED, and nothing was sent
C1_Witness ==
  /\ lastOp.op = "sendText"
  /\ connectionState # "CONNECTED"
  /\ sessionRef # Null
  /\ textsSent = 0
  /\ transcriptions = <<>>

\* C2: stop() is idempotent: in every reachable state a second stop() leaves
\* the state the first one produced, and makes no close/stop call at all.
C2_StopIdempotent ==
  LET once == stopConversation(Cur)
  IN /\ stopConversation(once) = once
     /\ StopCalls(once) = {}

\* stop() has closed a connection, released a stream and stopped a source,
\* and a second stop() from here changes nothing
C2_Witness ==
  /\ lastOp.op = "stop"
  /\ \E p \in DOMAIN starts : starts[p].conn = "closing" /\ starts[p].mic = "stopped"
  /\ \E i \in DOMAIN sources : sources[i].state = "stopped"
  /\ stopConversation(Cur) = Cur

\* C3: immediately after stop() the state is DISCONNECTED, no connection the
\* session opened is still opening or open, no microphone stream is live and
\* the active playback set is empty.
C3_StopReleasesEverything ==
  lastOp.op = "stop" =>
    /\ connectionState = "DISCONNECTED"
    /\ \A p \in DOMAIN starts : ~Live(p) /\ starts[p].mic # "live"
    /\ activeSources = {}

\* C4: at most one connection is open at any time.
C4_AtMostOneLiveConnection ==
  Cardinality({p \in DOMAIN starts : starts[p].conn = "open"}) <= 1

\* C5: after the Transport's onerror the state is ERROR, and the cleanup of
\* stop() is done: no session handle, no stream handle, no active source.
C5_ErrorAfterOnError ==
  lastOp.op = "onerror" =>
    /\ connectionState = "ERROR"
    /\ sessionRef = Null
    /\ micStreamRef = Null
    /\ activeSources = {}

\* C6: after a failed start() (microphone denied, or the connection not
\* opened) the state is ERROR, no microphone stream is held and no
\* connection handle remains.
C6_FailedStartCleansUp ==
  lastOp.op \in {"micDenied", "connectReject"} =>
    /\ connectionState = "ERROR"
    /\ micStreamRef = Null
    /\ \A p \in DOMAIN starts : starts[p].mic # "live"
    /\ sessionRef = Null

\* ----- the playback scheduler
\* the units scheduled since the same interruption as unit j, before j
BeforeIn(src, j) == {i \in DOMAIN src : i < j /\ src[i].epoch = src[j].epoch}

Before(j) == BeforeIn(sources, j)

\* the first unit scheduled since the same interruption as unit j
First(j) == CHOOSE i \in Before(j) \cup {j} : \A k \in Before(j) : i <= k

RECURSIVE SumDur(_, _)
SumDur(i, j) == IF i > j THEN 0 ELSE sources[i].dur + SumDur(i + 1, j)

End(i) == sources[i].start + sources[i].dur

\* unit j, and every unit since the first of its run, was scheduled no later
\* than the end of the unit before it
OnTime(j) == \A k \in Before(j) \cup {j} : k > First(j) => sources[k].at <= End(k - 1)

\* C7 as stated: with no Interrupted in between, the i-th scheduled start is
\* the first start plus d1 + ... + d(i-1), whenever the chunks arrive.
C7_GaplessAlways ==
  \A j \in DOMAIN sources :
    sources[j].start = sources[First(j)].start + SumDur(First(j), j - 1)

\* C7 as amended: the same, for chunks each processed no later than the
\* scheduled end of the chunk before it.
C7_GaplessWhenOnTime ==
  \A j \in DOMAIN sources :
    OnTime(j) => sources[j].start = sources[First(j)].start + SumDur(First(j), j - 1)

\* three chunks of one run, the later ones arriving while the clock moved,
\* each in time, play back to back
C7_Witness ==
  /\ Len(sources) >= 3
  /\ First(3) = 1
  /\ OnTime(3)
  /\ sources[3].at > sources[1].at
  /\ sources[3].start = sources[1].start + sources[1].dur + sources[2].dur

\* C8: a unit starts at the later of the cursor (the end of the unit before
\* it, or nothing after a reset) and the output clock at its scheduling: never
\* before that clock, nor before the end of a unit scheduled before it since
\* the last Interrupted.
C8_NoOverlap ==
  \A j \in DOMAIN sources :
    /\ sources[j].start =
         (IF Before(j) = {} THEN sources[j].at ELSE Max(End(j - 1), sources[j].at))
    /\ sources[j].start >= sources[j].at
    /\ \A i \in Before(j) : sources[j].start >= End(i)

\* a unit started at the cursor, after the clock, behind a unit still
\* scheduled; and a unit started at the clock after an interruption
C8_Witness ==
  /\ \E j \in DOMAIN sources :
       /\ Before(j) # {}
       /\ sources[j].start > sources[j].at
       /\ sources[j - 1].state = "scheduled"
  /\ \E j \in DOMAIN sources :
       /\ sources[j].epoch > 0
       /\ sources[j].at > 0
       /\ sources[j].start = sources[j].at

\* C9: the cursor decreases only in the step that processes an Interrupted,
\* and the starts of the units scheduled since one interruption do not decrease.
C9_CursorMonotone ==
  [][/\ nextStartTime' < nextStartTime
          => (lastOp'.op = "onmessage" /\ lastOp'.msg.interrupted)
     /\ Len(sources') > Len(sources)
          => \A i \in BeforeIn(sources', Len(sources')) :
               sources'[i].start <= sources'[Len(sources')].start]_vars

\* the cursor had advanced past a unit and an Interrupted has reset it
C9_Witness ==
  /\ lastOp.op = "onmessage"
  /\ lastOp.msg.interrupted
  /\ Len(sources) >= 2
  /\ End(Len(sources)) > 0
  /\ nextStartTime = 0

\* C10: after an Interrupted is processed every unit is stopped or ended, the
\* active set is empty and the cursor is 0; the first unit scheduled after an
\* interruption starts at the output clock of its scheduling.
C10_InterruptionTruncates ==
  /\ (lastOp.op = "onmessage" /\ lastOp.msg.interrupted) =>
       /\ activeSources = {}
       /\ nextStartTime = 0
       /\ \A i \in DOMAIN sources : sources[i].state # "scheduled"
  /\ \A j \in DOMAIN sources :
       (sources[j].epoch > 0 /\ Before(j) = {}) => sources[j].start = sources[j].at

\* two units were stopped by an interruption, and the next unit started at
\* the clock, before the end the cursor had reached
C10_Witness ==
  \E j \in DOMAIN sources :
    /\ j >= 3
    /\ sources[j].epoch > 0
    /\ Before(j) = {}
    /\ sources[j - 1].state = "stopped"
    /\ sources[j - 2].state = "stopped"
    /\ sources[j - 1].epoch = sources[j - 2].epoch
    /\ sources[j].start = sources[j].at
    /\ sources[j].start < End(j - 1)

\* ----- the transcript aggregator
\* the transcript entries of one speaker's trimmed text
Entry(role, text) ==
  IF text # <<>> THEN <<[role |-> role, text |-> text]>> ELSE <<>>

\* the fragments of one speaker up to and including those of a message
Said(h, fragment) == IF fragment # <<>> THEN h \o fragment[1] ELSE h

TurnCompleteStep == lastOp'.op = "onmessage" /\ lastOp'.msg.turnComplete

\* C11: processing TurnComplete appends one entry per non-empty trimmed
\* text, the user's before the model's, each the concatenation of every
\* fragment of that speaker received since the previous turn boundary, and
\* nothing when both are empty; both pending buffers are empty afterwards.
C11_TurnAggregation ==
  [][TurnCompleteStep =>
       /\ transcriptions' =
            transcriptions
              \o Entry("user",
                       trim(Said(heardInput, lastOp'.msg.inputTranscription)))
              \o Entry("model",
                       trim(Said(heardOutput, lastOp'.msg.outputTranscription)))
       /\ currentInputTranscription' = <<>>
       /\ currentOutputTranscription' = <<>>]_vars

\* C12: when start() has created a new connection, and when an Interrupted
\* has been processed, the playback cursor is 0 and both pending buffers are
\* empty.
C12_ResetOnNewSessionAndInterruption ==
  (\/ lastOp.op = "micGranted"
   \/ (lastOp.op = "onmessage" /\ lastOp.msg.interrupted))
    => /\ nextStartTime = 0
       /\ currentInputTranscription = <<>>
       /\ currentOutputTranscription = <<>>

\* C13: sendText(text) called while the connection state is CONNECTED sends
\* exactly one text message and appends exactly one user entry with that
\* text at the end of the transcript; the pending buffers are unchanged.
C13_SendTextWhileConnected ==
  [][(lastOp'.op = "sendText" /\ connectionState = "CONNECTED")
       => /\ textsSent' = textsSent + 1
          /\ \E t \in Texts :
               transcriptions' =
                 Append(transcriptions, [role |-> "user", text |-> t])
          /\ UNCHANGED <<currentInputTranscription,
                         currentOutputTranscription>>]_vars

IsPrefix(a, b) == Len(a) <= Len(b) /\ SubSeq(b, 1, Len(a)) = a

C15_ArrivalOrder ==
  [][/\ decoding # <<>> =>
          /\ lastOp' = [op |-> "onmessage", msg |-> decoding[1]]
          /\ msgCount' = msgCount
          /\ decoding' = <<>>
     /\ msgCount' # msgCount => decoding = <<>>]_vars

\* an audio chunk was decoded and scheduled, and the Interrupted of the next
\* message then stopped its unit
C15_Witness ==
  /\ msgCount = 2
  /\ lastOp.op = "onmessage"
  /\ lastOp.msg.interrupted
  /\ ~hasAudio(lastOp.msg)
  /\ Len(sources) = 1
  /\ sources[1].state = "stopped"

\* ----- the connection state
Transitions ==
  {<<"DISCONNECTED", "CONNECTING">>, <<"CONNECTING", "CONNECTED">>,
   <<"CONNECTING", "ERROR">>, <<"CONNECTED", "ERROR">>,
   <<"ERROR", "CONNECTING">>}
    \cup {<<c, "DISCONNECTED">> : c \in {"CONNECTING", "CONNECTED", "ERROR"}}

\* C16: the connection state changes only along DISCONNECTED -> CONNECTING
\* -> CONNECTED -> {DISCONNECTED, ERROR}, CONNECTING -> ERROR, ERROR ->
\* CONNECTING and, by stop(), any state -> DISCONNECTED; CONNECTED is
\* entered only from CONNECTING.
C16_StateTransitions ==
  [][connectionState' # connectionState
       => <<connectionState, connectionState'>> \in Transitions]_vars

\* ----- the fragments of a message
\* C17: a message's input fragment is appended to the input buffer and its
\* output fragment to the output buffer, whatever else the message carries
\* (with TurnComplete in the same message, the buffers with the fragments
\* appended are what the turn's entries are built from).
C17_EveryFragmentAppended ==
  [][lastOp'.op = "onmessage" =>
       LET input == Said(currentInputTranscription,
                         lastOp'.msg.inputTranscription)
           output == Said(currentOutputTranscription,
                          lastOp'.msg.outputTranscription)
       IN IF lastOp'.msg.turnComplete
          THEN transcriptions' = transcriptions \o Entry("user", trim(input))
                                                \o Entry("model", trim(output))
          ELSE /\ currentInputTranscription' = input
               /\ currentOutputTranscription' = output]_vars

\* ----- messages without audio
NoAudioStep == lastOp'.op = "onmessage" /\ lastOp'.msg.audio = 0

\* C18 as stated: a message whose audio is missing or empty schedules no
\* unit and leaves the cursor, the active set and the connection state
\* unchanged.
C18_NoAudioChangesNothing ==
  [][NoAudioStep =>
       /\ Len(sources') = Len(sources)
       /\ UNCHANGED <<nextStartTime, activeSources, connectionState>>]_vars

\* C18: a message whose audio is missing or empty schedules no unit and
\* leaves the connection state unchanged; it leaves the cursor, the active
\* set and the units unchanged unless it carries Interrupted, which stops
\* the active units, empties the active set and sets the cursor to 0.
C18_NoAudioSkipped ==
  [][NoAudioStep =>
       /\ Len(sources') = Len(sources)
       /\ connectionState' = connectionState
       /\ IF lastOp'.msg.interrupted
          THEN /\ nextStartTime' = 0
               /\ activeSources' = {}
               /\ sources' = stopSources(sources, activeSources)
          ELSE UNCHANGED <<sources, nextStartTime, activeSources>>]_vars

\* a message with no audio and no Interrupted was processed while a unit was
\* playing and the cursor was ahead of the clock
C18_Witness ==
  /\ lastOp.op = "onmessage"
  /\ lastOp.msg.audio = 0
  /\ ~lastOp.msg.interrupted
  /\ activeSources # {}
  /\ nextStartTime > now

\* ----- the resources of a session that is over
\* C19: whenever the connection state is DISCONNECTED no microphone stream
\* is held (none is referenced and none is capturing) and no connection
\* handle is retained.
C19_DisconnectedReleased ==
  connectionState = "DISCONNECTED" =>
    /\ micStreamRef = Null
    /\ sessionRef = Null
    /\ \A p \in DOMAIN starts : starts[p].mic # "live"

\* ----- the capture pipeline
Armed == {p \in DOMAIN starts : starts[p].armed}

\* C20: a captured chunk is sent only while the state is CONNECTED and only
\* on the connection that is open and current; a pipeline is armed only
\* after onopen, and at most one pipeline is armed at a time.
C20_AudioOnlyWhileConnected ==
  /\ lastOp.op = "audioprocess" =>
       /\ connectionState = "CONNECTED"
       /\ starts[audioSentOn].conn = "open"
       /\ sessionRef \in {Null, audioSentOn}
  /\ \A p \in Armed : starts[p].pc \in {"resolved", "done"}
  /\ Cardinality(Armed) <= 1

\* ----- cancellation of the playback
\* stop() or an Interrupted has just executed
Cancelled == lastOp.op = "stop" \/ (lastOp.op = "onmessage" /\ lastOp.msg.interrupted)

\* C21: when stop() or an Interrupted has executed, the active set is
\* empty, no unit is left scheduled and no received chunk is waiting to be
\* scheduled; a unit enters the active set only as the rest of the handler
\* of the chunk received in the step before, so never from a chunk received
\* before a cancellation.
C21_CancellationFinal ==
  [][/\ Cancelled' =>
          /\ activeSources' = {}
          /\ decoding' = <<>>
          /\ \A i \in DOMAIN sources' : sources'[i].state # "scheduled"
     /\ (activeSources' \ activeSources # {} \/ Len(sources') > Len(sources)) =>
          /\ ~Cancelled
          /\ lastOp = [op |-> "onmessageAwait", msg |-> lastOp'.msg]
          /\ decoding = <<lastOp'.msg>>
          /\ activeSources' \ activeSources \subseteq {Len(sources')}]_vars

\* a unit was stopped by an Interrupted, and the chunk of a later message
\* is the only unit in the active set
C21_Witness ==
  \E j \in DOMAIN sources :
    /\ j >= 2
    /\ activeSources = {j}
    /\ sources[j].state = "scheduled"
    /\ sources[j].epoch > sources[j - 1].epoch
    /\ sources[j - 1].state = "stopped"
    /\ lastOp.op = "onmessage"
    /\ ~lastOp.msg.interrupted
====
